---- MODULE Spec2Model ----
(***************************************************************************)
(* The sharded token-stream data pipeline of GPT2_124M:                    *)
(*   src/dataset.py  FineWebEdu (__init__, _get_shard_paths, _load_shard,  *)
(*                   __getitem__, __len__), cycle                          *)
(*   src/train.py    initialise_ddp, train, load_fineweb, cycle            *)
(*                                                                         *)
(* The corpus constants SHARD_SIZE (100,000,000) and LAST_SHARD_SIZE       *)
(* (82,590,278) are far beyond what can be enumerated, so they are state   *)
(* fixed by Init to every pair 1 <= LAST_SHARD_SIZE <= SHARD_SIZE <=       *)
(* MaxShardSize: all index arithmetic of the code is kept, only the scale  *)
(* is reduced.  A token is identified with the position it was given when  *)
(* the corpus was tokenised, so a duplicated, skipped or misplaced token   *)
(* is visible in a batch.                                                  *)
(***************************************************************************)
EXTENDS Integers, Sequences, FiniteSets, TLC

\* ----------------------------------------------------------------- bounds
MaxShards    == 2   \* shard files of a split
MaxShardSize == 4   \* tokens of a nominal shard
MaxBatch     == 2   \* batch_size
MaxBlock     == 3   \* block_size
MaxBeyond    == 2   \* how far past __len__() a requested index may lie
MaxNodes     == 2   \* machines of a torchrun launch
MaxPerNode   == 2   \* processes (GPUs) per machine
MaxRestarts  == 2   \* restarts of one request that are told apart

VARIABLES
  split,            \* self.split
  batch_size,       \* self.batch_size
  block_size,       \* self.block_size
  SHARD_SIZE,       \* fineweb.SHARD_SIZE (dataset.py:7), scaled
  LAST_SHARD_SIZE,  \* dataset.py:9, scaled
  shards,           \* self.shards: the path list, in os.listdir order
  listing,          \* os.listdir(self.root): the file names, as returned
  construction,     \* how FineWebEdu(...) ended, and the split it was given
  cache,            \* self.cache: path -> token buffer
  arg,              \* idx of the latest __getitem__ call (-1: none yet)
  ret,              \* what that call returned or raised
  loads,            \* the _load_shard calls that call made, in order
  length,           \* what the latest __len__() call returned (-1: none yet)
  ddp_rank,         \* int(os.environ["RANK"])
  ddp_local_rank,   \* int(os.environ["LOCAL_RANK"])
  ddp_world_size,   \* int(os.environ["WORLD_SIZE"])
  nproc_per_node,   \* the processes torchrun started on each machine
  gen,              \* the generator cycle(train_loader): created, running,
                    \* suspended (at its yield) or dead (an exception left it)
  iterator,         \* cycle's local `iterator`: the indices still to come
  produced,         \* the indices of the batches the generator has yielded
  pass_reads,       \* the shard indices read from disk in the current pass
  restarts          \* how often cycle renewed its iterator since the latest
                    \* request (MaxRestarts stands for that many or more)

vars == <<split, batch_size, block_size, SHARD_SIZE, LAST_SHARD_SIZE, shards,
          listing, construction, cache, arg, ret, loads, length,
          ddp_rank, ddp_local_rank, ddp_world_size, nproc_per_node,
          gen, iterator, produced, pass_reads, restarts>>

ddp == <<ddp_rank, ddp_local_rank, ddp_world_size, nproc_per_node>>
loader == <<gen, iterator, produced, pass_reads, restarts>>
dataset == <<cache, arg, ret, loads>>

config == <<split, batch_size, block_size, SHARD_SIZE, LAST_SHARD_SIZE, shards,
            listing, construction>>

Min(a, b) == IF a < b THEN a ELSE b

\* ------------------------------------------------------- the files on disk
\* A path is the ordinal of its file in the tokenised corpus (0-based): the
\* files 0 .. n-2 hold SHARD_SIZE tokens; the last file of the training
\* split holds LAST_SHARD_SIZE, the last file of the validation split
\* SHARD_SIZE (dataset.py:22-25).
NumShards == Len(shards)

FileSize(path) ==
  IF split = "train" /\ path = NumShards - 1 THEN LAST_SHARD_SIZE ELSE SHARD_SIZE

\* np.load(path) then torch.tensor(arr): the tokens of the file.
NpLoad(path) == [p \in 1..FileSize(path) |-> path * SHARD_SIZE + (p - 1)]

\* os.listdir returns the names in arbitrary order and _get_shard_paths
\* keeps that order: every arrangement of the n files.
ListDir(n) ==
  {s \in [1..n -> 0..(n - 1)] : \A i, j \in 1..n : i # j => s[i] # s[j]}

\* A file name "edufineweb_<tag>_<ord>.npy" is the record of its tag and of
\* its ordinal among the files of that tag; names compare as their ordinals.
FileName(tag, ord) == [tag |-> tag, ord |-> ord]

\* `split in f` for a split whose lower case is "train" or "val": the name
\* holds the split's text exactly when its tag is that text.
Contains(f, s) == f.tag = s

\* str.lower() on the split names tried.
SplitNames == {"train", "val", "Train", "VAL", "test"}

Lower(s) ==
  CASE s = "Train" -> "train"
    [] s = "VAL"   -> "val"
    [] OTHER       -> s

\* Every order in which os.listdir may return the names of a set of files.
Arrangements(S) ==
  {s \in [1..Cardinality(S) -> S] : \A i, j \in DOMAIN s : i # j => s[i] # s[j]}

\* _get_shard_paths as it would be with sorted(names): the paths in
\* ascending order of file name.
RECURSIVE SortedPaths(_)
SortedPaths(S) ==
  IF S = {} THEN <<>>
  ELSE LET m == CHOOSE x \in S : \A z \in S : x <= z
       IN <<m>> \o SortedPaths(S \ {m})

GetShardPaths_Sorted(names, s) ==
  SortedPaths({names[i].ord : i \in {k \in DOMAIN names : Contains(names[k], s)}})

\* _get_shard_paths(split) over the listing `names`: the names that hold the
\* split's text, in the order of the listing; a path is its file's ordinal.
GetShardPaths(names, s) ==
  LET Keep(f) == Contains(f, s)
      kept    == SelectSeq(names, Keep)
  IN [i \in 1..Len(kept) |-> kept[i].ord]

\* ------------------------------------------------------------- _load_shard
NoCache == <<>>

\* _load_shard as it would be with `if self.cache:` for the hit test: any
\* resident buffer is returned, whichever shard was asked for.
LoadShard_AnyResident(c, shard_idx) ==
  IF shard_idx >= Len(shards)
  THEN [err |-> TRUE, cache |-> c, tokens |-> <<>>, read |-> FALSE]
  ELSE LET path == shards[shard_idx + 1] IN
       IF DOMAIN c # {}
       THEN [err |-> FALSE, cache |-> c,
             tokens |-> c[CHOOSE q \in DOMAIN c : TRUE], read |-> FALSE]
       ELSE LET tokens == NpLoad(path) IN
            [err |-> FALSE, cache |-> (path :> tokens), tokens |-> tokens,
             read |-> TRUE]

\* _load_shard as it would be without `self.cache = {}`: nothing is evicted.
LoadShard_KeepAll(c, shard_idx) ==
  IF shard_idx >= Len(shards)
  THEN [err |-> TRUE, cache |-> c, tokens |-> <<>>, read |-> FALSE]
  ELSE LET path == shards[shard_idx + 1] IN
       IF path \in DOMAIN c
       THEN [err |-> FALSE, cache |-> c, tokens |-> c[path], read |-> FALSE]
       ELSE LET tokens == NpLoad(path) IN
            [err |-> FALSE, cache |-> (path :> tokens) @@ c, tokens |-> tokens,
             read |-> TRUE]

\* _load_shard as it would be without the hit test: every call reads the file.
LoadShard_AlwaysRead(c, shard_idx) ==
  IF shard_idx >= Len(shards)
  THEN [err |-> TRUE, cache |-> c, tokens |-> <<>>, read |-> FALSE]
  ELSE LET path   == shards[shard_idx + 1]
           tokens == NpLoad(path)
       IN [err |-> FALSE, cache |-> (path :> tokens), tokens |-> tokens,
           read |-> TRUE]

LoadShard(c, shard_idx) ==
  IF shard_idx >= Len(shards)
  THEN [err |-> TRUE, cache |-> c, tokens |-> <<>>, read |-> FALSE]
  ELSE LET path == shards[shard_idx + 1] IN
       IF path \in DOMAIN c
       THEN [err |-> FALSE, cache |-> c, tokens |-> c[path], read |-> FALSE]
       ELSE LET tokens == NpLoad(path) IN
            [err |-> FALSE, cache |-> (path :> tokens), tokens |-> tokens,
             read |-> TRUE]

\* One entry of the log of _load_shard calls.
LoadEntry(c, shard_idx, r) ==
  [shard_idx |-> shard_idx, before |-> c, after |-> r.cache,
   tokens |-> r.tokens, read |-> r.read, err |-> r.err]

\* ------------------------------------------------------------ tensor slices
\* tokens[a:] and tokens[a:b] for 0 <= a: the bounds are clipped to the buffer.
\* tokens[a:b] as it would be with an inclusive end.
Slice_Inclusive(t, a, b) == SubSeq(t, a + 1, Min(b + 1, Len(t)))

\* tokens[a:] as it would be if it started one token late.
SliceFrom_Late(t, a) == SubSeq(t, a + 2, Len(t))

SliceFrom(t, a) == SubSeq(t, a + 1, Len(t))
Slice(t, a, b)  == SubSeq(t, a + 1, Min(b, Len(t)))

\* t.view(rows, -1): fails unless the element count is a positive multiple
\* of rows; row i holds the elements [i*w, (i+1)*w).
ViewOk(t, rows) == Len(t) > 0 /\ Len(t) % rows = 0
View(t, rows) ==
  LET w == Len(t) \div rows IN
  [i \in 1..rows |-> SubSeq(t, (i - 1) * w + 1, i * w)]

\* ------------------------------------------------------------- __getitem__
Raise(kind, c, log) ==
  [status |-> kind, X |-> <<>>, y |-> <<>>, cache |-> c, loads |-> log]

Return(X, y, c, log) ==
  IF ViewOk(X, batch_size) /\ ViewOk(y, batch_size)
  THEN [status |-> "ok", X |-> View(X, batch_size), y |-> View(y, batch_size),
        cache |-> c, loads |-> log]
  ELSE Raise("RuntimeError", c, log)

ChunkSize == batch_size * block_size

ShardIdx(idx) == (idx * ChunkSize) \div SHARD_SIZE

LocalIdx(idx) ==
  LET global_idx == idx * ChunkSize IN
  IF ShardIdx(idx) = Len(shards) - 1
  THEN global_idx - (Len(shards) - 1) * SHARD_SIZE
  ELSE global_idx % SHARD_SIZE

GetItem(c, idx) ==
  LET chunk_size == ChunkSize
      shard_idx  == ShardIdx(idx)
      local_idx  == LocalIdx(idx)
      l1         == LoadShard(c, shard_idx)
      log1       == <<LoadEntry(c, shard_idx, l1)>>
  IN
  IF l1.err THEN Raise("IndexError", l1.cache, log1)
  ELSE
  IF local_idx + chunk_size >= Len(l1.tokens)
  THEN LET X1   == SliceFrom(l1.tokens, local_idx)
           y1   == SliceFrom(l1.tokens, local_idx + 1)
           l2   == LoadShard(l1.cache, shard_idx + 1)
           log2 == Append(log1, LoadEntry(l1.cache, shard_idx + 1, l2))
           rem  == chunk_size - Len(X1)
       IN
       IF l2.err THEN Raise("IndexError", l2.cache, log2)
       ELSE IF rem = 0
            THEN Return(X1, y1 \o Slice(l2.tokens, 0, 1), l2.cache, log2)
            ELSE IF rem > 0
            THEN Return(X1 \o Slice(l2.tokens, 0, rem),
                        y1 \o Slice(l2.tokens, 0, rem + 1), l2.cache, log2)
            ELSE Return(X1, y1, l2.cache, log2)
  ELSE Return(Slice(l1.tokens, local_idx, local_idx + chunk_size),
              Slice(l1.tokens, local_idx + 1, local_idx + chunk_size + 1),
              l1.cache, log1)

\* ------------------------------------------------------------------ __len__
\* __len__ as it would be if the training split were counted like the
\* validation split, every shard at SHARD_SIZE.
DatasetLen_AllNominal == (Len(shards) * SHARD_SIZE) \div ChunkSize

DatasetLen ==
  IF split = "val"
  THEN (Len(shards) * SHARD_SIZE) \div ChunkSize
  ELSE ((Len(shards) - 1) * SHARD_SIZE + LAST_SHARD_SIZE) \div ChunkSize

\* ------------------------------------------------------------ construction
NoRet == [status |-> "none", X |-> <<>>, y |-> <<>>]

DatasetInit ==
  /\ split \in {"train", "val"}
  /\ batch_size \in 1..MaxBatch
  /\ block_size \in 1..MaxBlock
  /\ SHARD_SIZE \in 1..MaxShardSize
  /\ LAST_SHARD_SIZE \in 1..SHARD_SIZE
  /\ \E n \in 1..MaxShards : shards \in ListDir(n)
  /\ listing = [i \in 1..Len(shards) |-> FileName(split, shards[i])]
  /\ construction = [status |-> "ok", split |-> split]
  /\ cache = NoCache
  /\ arg = -1
  /\ ret = NoRet
  /\ loads = <<>>
  /\ length = -1

\* A process that was not started by torchrun: initialise_ddp's fallback.
SingleProcess ==
  /\ ddp_rank = 0
  /\ ddp_local_rank = 0
  /\ ddp_world_size = 1
  /\ nproc_per_node = 1

\* cycle(train_loader) makes the generator object; its body has not run.
LoaderInit ==
  /\ gen = "created"
  /\ iterator = <<>>
  /\ produced = <<>>
  /\ pass_reads = <<>>
  /\ restarts = 0

Init == DatasetInit /\ SingleProcess /\ LoaderInit

\* --------------------------------------------------------------- operations
\* dataset[idx]
Get(idx) ==
  LET r == GetItem(cache, idx) IN
  /\ arg' = idx
  /\ ret' = [status |-> r.status, X |-> r.X, y |-> r.y]
  /\ cache' = r.cache
  /\ loads' = r.loads
  /\ UNCHANGED <<config, length, ddp, loader>>

\* len(dataset)
CallLen ==
  /\ length' = DatasetLen
  /\ UNCHANGED <<config, dataset, ddp, loader>>

Next ==
  \/ \E idx \in 0..(DatasetLen + MaxBeyond) : Get(idx)
  \/ CallLen

Spec == Init /\ [][Next]_vars

\* ------------------------------------------------- the distributed loader
\* initialise_ddp under torchrun: WORLD_SIZE processes, per_node on each of
\* nodes machines; RANK numbers them all, LOCAL_RANK those of one machine.
TorchRun ==
  \E nodes \in 1..MaxNodes, per_node \in 1..MaxPerNode :
    \E node \in 0..(nodes - 1), local \in 0..(per_node - 1) :
      /\ ddp_world_size = nodes * per_node
      /\ ddp_rank = node * per_node + local
      /\ ddp_local_rank = local
      /\ nproc_per_node = per_node

\* DistributedSampler as it would be with drop_last=True: the tail that does
\* not divide evenly is left out instead of the list being padded.
DistributedSampler_DropTail(n, num_replicas, rank) ==
  LET num_samples == n \div num_replicas IN
  [j \in 1..num_samples |-> rank + (j - 1) * num_replicas]

\* DistributedSampler(dataset, num_replicas, rank, shuffle=False), drop_last
\* left at False: the index list 0..n-1 is padded with its own head up to a
\* multiple of num_replicas, and the rank takes every num_replicas-th entry
\* from position rank.
DistributedSampler(n, num_replicas, rank) ==
  LET num_samples  == (n + num_replicas - 1) \div num_replicas
      total_size   == num_samples * num_replicas
      indices      == [i \in 1..n |-> i - 1]
      padding_size == total_size - n
      padded       == indices \o
                      [j \in 1..padding_size |-> indices[((j - 1) % n) + 1]]
  IN [j \in 1..num_samples |-> padded[rank + (j - 1) * num_replicas + 1]]

\* load_fineweb(DDP_WORLD_SIZE, DDP_LOCAL_RANK) as train() calls it: the
\* indices one pass over the loader fetches, in order.
LoaderIndices == DistributedSampler(DatasetLen, ddp_world_size, ddp_local_rank)

\* The consumer asks for the next batch, next(train_iter); the first request
\* starts the generator's body, which makes the first iterator.
RequestNext ==
  /\ gen \in {"created", "suspended"}
  /\ Len(produced) < 2 * Len(LoaderIndices) + 3
  /\ gen' = "running"
  /\ iterator' = IF gen = "created" THEN LoaderIndices ELSE iterator
  /\ restarts' = 0
  /\ UNCHANGED <<config, dataset, length, ddp, produced, pass_reads>>

\* The shards a call of dataset[idx] read from disk, in order.
RECURSIVE DiskReads(_)
DiskReads(log) ==
  IF log = <<>> THEN <<>>
  ELSE (IF Head(log).read THEN <<Head(log).shard_idx>> ELSE <<>>)
       \o DiskReads(Tail(log))

\* next(iterator) has an index left: the loader fetches dataset[idx] and the
\* generator yields it; an exception of the fetch ends the generator.
CycleYield ==
  /\ gen = "running"
  /\ iterator # <<>>
  /\ LET idx == Head(iterator)
         r   == GetItem(cache, idx)
     IN /\ arg' = idx
        /\ ret' = [status |-> r.status, X |-> r.X, y |-> r.y]
        /\ cache' = r.cache
        /\ loads' = r.loads
        /\ iterator' = Tail(iterator)
        /\ pass_reads' = pass_reads \o DiskReads(r.loads)
        /\ IF r.status = "ok"
           THEN gen' = "suspended" /\ produced' = Append(produced, idx)
           ELSE gen' = "dead" /\ produced' = produced
  /\ UNCHANGED <<config, length, ddp, restarts>>

\* cycle as it would be if it restarted one item early.
CycleRestart_Early ==
  /\ gen = "running"
  /\ Len(iterator) <= 1
  /\ iterator' = LoaderIndices
  /\ pass_reads' = <<>>
  /\ restarts' = Min(restarts + 1, MaxRestarts)
  /\ UNCHANGED <<config, dataset, length, ddp, gen, produced>>

\* cycle as it would be with `iterator = iter(iterator)`: the exhausted
\* iterator is kept.
CycleRestart_Exhausted ==
  /\ gen = "running"
  /\ iterator = <<>>
  /\ iterator' = iterator
  /\ pass_reads' = <<>>
  /\ restarts' = Min(restarts + 1, MaxRestarts)
  /\ UNCHANGED <<config, dataset, length, ddp, gen, produced>>

\* next(iterator) raises StopIteration: the generator makes a new iterator
\* and tries again.
CycleRestart ==
  /\ gen = "running"
  /\ iterator = <<>>
  /\ iterator' = LoaderIndices
  /\ pass_reads' = <<>>
  /\ restarts' = Min(restarts + 1, MaxRestarts)
  /\ UNCHANGED <<config, dataset, length, ddp, gen, produced>>

InitLoader == DatasetInit /\ TorchRun /\ LoaderInit

NextLoader ==
  \/ RequestNext
  \/ CycleYield
  \/ CycleRestart

SpecLoader == InitLoader /\ [][NextLoader]_vars

\* cycle over the loader of a dataset of one-row batches, in a process that
\* torchrun did not start: passes of 0 to MaxShards * MaxShardSize indices.
InitCycle == Init /\ batch_size = 1

\* The generator's body, once resumed by next(), runs on: a thread that is
\* inside cycle keeps executing its loop.
SpecCycle ==
  /\ InitCycle
  /\ [][NextLoader]_vars
  /\ WF_vars(CycleYield)
  /\ WF_vars(CycleRestart)

\* ------------------------------------------------- constructing a dataset
\* The files a data directory may hold: the training shards, the validation
\* shard, and a file whose name spells the split in upper case.
Directories ==
  {    {FileName("train", i) : i \in 0..(t - 1)}
   \cup {FileName("val", i) : i \in 0..(v - 1)}
   \cup {FileName("VAL", i) : i \in 0..(u - 1)} :
   t \in 0..MaxShards, v \in 0..1, u \in 0..1}

\* Before FineWebEdu(...) is called: the module constants and the directory
\* exist, no instance does.
ConstructInit ==
  /\ SHARD_SIZE \in 1..MaxShardSize
  /\ LAST_SHARD_SIZE \in 1..SHARD_SIZE
  /\ \E D \in Directories : listing \in Arrangements(D)
  /\ construction = [status |-> "none", split |-> ""]
  /\ split = ""
  /\ batch_size = 0
  /\ block_size = 0
  /\ shards = <<>>
  /\ cache = NoCache
  /\ arg = -1
  /\ ret = NoRet
  /\ loads = <<>>
  /\ length = -1
  /\ SingleProcess
  /\ LoaderInit

\* FineWebEdu(batch_size, block_size, split=s): the split assertion, the
\* fields, the shard list and its assertion, the empty cache.
Construct(bs, bl, s) ==
  /\ construction.status = "none"
  /\ IF Lower(s) \notin {"train", "val"}
     THEN /\ construction' = [status |-> "AssertionError: split", split |-> s]
          /\ UNCHANGED <<split, batch_size, block_size, shards, cache>>
     ELSE LET paths == GetShardPaths(listing, s) IN
          IF Len(paths) = 0
          THEN /\ construction' = [status |-> "AssertionError: no shards",
                                   split |-> s]
               /\ UNCHANGED <<split, batch_size, block_size, shards, cache>>
          ELSE /\ construction' = [status |-> "ok", split |-> s]
               /\ split' = s
               /\ batch_size' = bs
               /\ block_size' = bl
               /\ shards' = paths
               /\ cache' = NoCache
  /\ UNCHANGED <<SHARD_SIZE, LAST_SHARD_SIZE, listing, arg, ret, loads,
                 length, ddp, loader>>

NextConstruct ==
  \/ \E bs \in 1..MaxBatch, bl \in 1..MaxBlock, s \in SplitNames :
       Construct(bs, bl, s)
  \/ construction.status = "ok" /\ CallLen

SpecConstruct == ConstructInit /\ [][NextConstruct]_vars
\* ---------------------------------------------------------- reading a batch
\* The corpus as the code addresses it: the shards in list order, end to end.
RECURSIVE StreamUpTo(_)
StreamUpTo(k) == IF k = 0 THEN <<>> ELSE StreamUpTo(k - 1) \o NpLoad(shards[k])
Stream == StreamUpTo(Len(shards))

\* Every shard of the list but the last holds SHARD_SIZE tokens.
NonFinalNominal ==
  \A k \in 1..(Len(shards) - 1) : FileSize(shards[k]) = SHARD_SIZE

\* The rows of a returned tensor, end to end.
RECURSIVE FlatUpTo(_, _)
FlatUpTo(rows, i) == IF i = 0 THEN <<>> ELSE FlatUpTo(rows, i - 1) \o rows[i]
Flat(rows) == FlatUpTo(rows, Len(rows))

\* Shape [batch_size, block_size].
FullShape(rows) ==
  /\ Len(rows) = batch_size
  /\ \A i \in 1..Len(rows) : Len(rows[i]) = block_size

Called == arg >= 0

\* C1: for every idx < len(dataset), on a corpus whose non-final shards hold
\* SHARD_SIZE tokens, dataset[idx] returns X and y of shape
\* [batch_size, block_size] with X[i][j] the token at stream position
\* g + i*block_size + j and y[i][j] the token at the position after it,
\* g = idx * batch_size * block_size.
C1_BatchIsStreamWindow ==
  (Called /\ arg < DatasetLen /\ NonFinalNominal) =>
    /\ ret.status = "ok"
    /\ FullShape(ret.X)
    /\ FullShape(ret.y)
    /\ \A i \in 0..(batch_size - 1), j \in 0..(block_size - 1) :
         LET pos == arg * ChunkSize + i * block_size + j IN
         /\ pos + 1 < Len(Stream)
         /\ ret.X[i + 1][j + 1] = Stream[pos + 1]
         /\ ret.y[i + 1][j + 1] = Stream[pos + 2]

\* C2: when the chunk of dataset[idx] starts at offset o of shard K with
\* 0 < r = size(K) - o < chunk_size (and the list has a shard K+1), X is the
\* last r tokens of shard K then the first chunk_size - r tokens of shard
\* K+1, y is the r - 1 tokens after offset o then the first
\* chunk_size - r + 1 tokens of shard K+1, and the second shard loaded is K+1.
C2_BoundaryStitching ==
  LET K == ShardIdx(arg)
      o == LocalIdx(arg)
  IN
  (Called /\ arg < DatasetLen /\ NonFinalNominal /\ K + 1 < Len(shards)) =>
    LET tK  == NpLoad(shards[K + 1])
        tK1 == NpLoad(shards[K + 2])
        r   == Len(tK) - o
    IN
    (0 < r /\ r < ChunkSize) =>
      /\ ret.status = "ok"
      /\ Len(loads) = 2
      /\ loads[2].shard_idx = K + 1
      /\ ChunkSize - r + 1 <= Len(tK1)
      /\ Flat(ret.X) = SubSeq(tK, o + 1, Len(tK)) \o SubSeq(tK1, 1, ChunkSize - r)
      /\ Flat(ret.y) = SubSeq(tK, o + 2, Len(tK)) \o SubSeq(tK1, 1, ChunkSize - r + 1)

\* C9: dataset[idx] for idx >= len(dataset) raises; it returns no batch.
C9_OutOfRangeRaises ==
  (Called /\ arg >= DatasetLen /\ NonFinalNominal) => ret.status # "ok"

\* C10: a call of dataset[idx] that returns, returns X and y of shape
\* [batch_size, block_size]; anything else is an error.
C10_NoPartialBatch ==
  (Called /\ ret.status = "ok") => FullShape(ret.X) /\ FullShape(ret.y)
\* ------------------------------------------------------------------ length
\* The tokens __len__ counts: every shard at SHARD_SIZE for the validation
\* split, the last one at LAST_SHARD_SIZE for the training split.
CountedTokens ==
  IF split = "val" THEN Len(shards) * SHARD_SIZE
  ELSE (Len(shards) - 1) * SHARD_SIZE + LAST_SHARD_SIZE

\* C3: len(dataset) is the quotient of the counted tokens by
\* batch_size * block_size: the largest number of whole chunks that fit
\* ((num_shards * SHARD_SIZE) // chunk_size for "val",
\* ((num_shards - 1) * SHARD_SIZE + LAST_SHARD_SIZE) // chunk_size for "train").
C3_LengthIsWholeChunks ==
  length # -1 =>
    /\ length >= 0
    /\ length * ChunkSize <= CountedTokens
    /\ CountedTokens < (length + 1) * ChunkSize

C3_Witness ==
  /\ length >= 1
  /\ split = "train"
  /\ Len(shards) >= 2
  /\ LAST_SHARD_SIZE < SHARD_SIZE
  /\ CountedTokens % ChunkSize # 0
  /\ (Len(shards) * SHARD_SIZE) \div ChunkSize > length

\* ------------------------------------------------------------------- cache
\* C4: what dataset[idx] returns or raises does not depend on the calls made
\* before it: it is what a dataset with an empty cache gives for idx.
C4_Deterministic ==
  Called =>
    LET fresh == GetItem(NoCache, arg) IN
    ret = [status |-> fresh.status, X |-> fresh.X, y |-> fresh.y]

\* A batch read through a shard that had to replace another resident shard.
C4_Witness ==
  /\ Called
  /\ ret.status = "ok"
  /\ DOMAIN loads[1].before # {}
  /\ loads[1].read
  /\ arg < DatasetLen

\* C5: the cache never holds more than one shard, neither between calls nor
\* between the two loads of a boundary-crossing call, and after a call that
\* returned a batch it holds exactly the shard loaded last.
C5_SingleResident ==
  /\ Cardinality(DOMAIN cache) <= 1
  /\ \A i \in 1..Len(loads) :
       /\ Cardinality(DOMAIN loads[i].before) <= 1
       /\ Cardinality(DOMAIN loads[i].after) <= 1
  /\ (Called /\ ret.status = "ok") =>
       DOMAIN cache = {shards[loads[Len(loads)].shard_idx + 1]}

\* A boundary-crossing call that started with a third shard resident.
C5_Witness ==
  /\ ret.status = "ok"
  /\ Len(loads) = 2
  /\ loads[1].read
  /\ loads[2].read
  /\ DOMAIN loads[1].before # {}
  /\ DOMAIN cache = {shards[loads[1].shard_idx + 2]}

\* C6: a _load_shard call for the resident shard reads nothing from disk,
\* returns the resident buffer and leaves the cache as it was; a file is read
\* only for a shard that is not resident.
C6_HitReadsNothing ==
  \A i \in 1..Len(loads) :
    LET e == loads[i] IN
    ~e.err =>
      LET path == shards[e.shard_idx + 1] IN
      /\ path \in DOMAIN e.before =>
           /\ ~e.read
           /\ e.after = e.before
           /\ e.tokens = e.before[path]
      /\ e.read => path \notin DOMAIN e.before

C6_Witness ==
  \E i \in 1..Len(loads) :
    /\ ~loads[i].err
    /\ shards[loads[i].shard_idx + 1] \in DOMAIN loads[i].before
    /\ ret.status = "ok"
\* ------------------------------------------------------------------- cycle
\* C7: the k-th batch the generator yields (k from 0) is the one of index
\* k mod L of the loader's pass, L its length: 0..L-1, 0..L-1, 0, 1, 2 for the
\* first 2L+3 of a loader that is not split among processes; the iterator is
\* renewed only once all L indices of a pass have been yielded.
C7_CycleOrder ==
  LET items == LoaderIndices
      L     == Len(items)
  IN
  /\ \A k \in 1..Len(produced) :
       /\ produced[k] = items[((k - 1) % L) + 1]
       /\ ddp_world_size = 1 => produced[k] = (k - 1) % L
  /\ (gen = "suspended") =>
       Len(iterator) = L - (((Len(produced) - 1) % L) + 1)

C7_Witness ==
  /\ ddp_world_size = 1
  /\ Len(LoaderIndices) >= 3
  /\ Len(produced) = 2 * Len(LoaderIndices) + 3
  /\ SubSeq(produced, 2 * Len(LoaderIndices) + 1, Len(produced)) = <<0, 1, 2>>

\* --------------------------------------------------------------- partition
Range(seq) == {seq[i] : i \in DOMAIN seq}

\* The subset of batch indices the sampler gives to a rank in one epoch.
RankIndices(rank) == DistributedSampler(DatasetLen, ddp_world_size, rank)

Ranks == 0..(ddp_world_size - 1)

Disjoint ==
  \A r1, r2 \in Ranks : r1 # r2 => Range(RankIndices(r1)) \cap Range(RankIndices(r2)) = {}

Covering == UNION {Range(RankIndices(r)) : r \in Ranks} = 0..(DatasetLen - 1)

C11_ShardsInNameOrder ==
  construction.status = "ok" =>
    /\ \A i, j \in 1..Len(shards) : i < j => shards[i] < shards[j]
    /\ shards = GetShardPaths_Sorted(listing, split)

\* C13: constructing a dataset with a split name that is not exactly
\* "train" or "val" fails at the split assertion, so every instance has
\* split "train" or "val" and its __len__ uses the formula of that split.
C13_InvalidSplitFailsFast ==
  /\ (construction.status # "none" /\ construction.split \notin {"train", "val"})
       => construction.status = "AssertionError: split"
  /\ construction.status = "ok" => split \in {"train", "val"}
  /\ (construction.status = "ok" /\ length # -1) =>
       length = IF Lower(split) = "val"
                THEN (Len(shards) * SHARD_SIZE) \div ChunkSize
                ELSE ((Len(shards) - 1) * SHARD_SIZE + LAST_SHARD_SIZE)
                       \div ChunkSize
\* -------------------------------------------------------------- last shard
\* C14: for every idx < len(dataset) whose chunk starts in the last shard,
\* dataset[idx] takes the direct-slice branch (one load, a batch returned),
\* and no call with idx < len(dataset) asks _load_shard for shard index
\* num_shards.
C14_LastShardNeverCrosses ==
  (Called /\ arg < DatasetLen /\ NonFinalNominal) =>
    /\ ShardIdx(arg) = Len(shards) - 1 =>
         /\ Len(loads) = 1
         /\ ret.status = "ok"
    /\ \A i \in 1..Len(loads) : loads[i].shard_idx < Len(shards)

\* C15: when the chunk of dataset[idx] ends exactly at the last token of
\* shard K (local_idx + chunk_size = size of K) and the list has a shard
\* K+1, X is the chunk_size tokens of shard K from local_idx on and y is the
\* last chunk_size - 1 of them followed by exactly one token, the first of
\* shard K+1; the direct-slice branch (a single load) is taken exactly when
\* local_idx + chunk_size + 1 <= size of K, and its target is the full
\* chunk_size tokens after local_idx.
C15_DegenerateBoundary ==
  (Called /\ ~loads[1].err) =>
    LET K    == ShardIdx(arg)
        o    == LocalIdx(arg)
        tK   == NpLoad(shards[K + 1])
        size == Len(tK)
    IN
    /\ (o + ChunkSize = size /\ K + 1 < Len(shards)) =>
         /\ ret.status = "ok"
         /\ Len(loads) = 2
         /\ loads[2].shard_idx = K + 1
         /\ Len(Flat(ret.X)) = ChunkSize
         /\ Flat(ret.X) = SubSeq(tK, o + 1, size)
         /\ Flat(ret.y) = SubSeq(tK, o + 2, size)
                            \o <<NpLoad(shards[K + 2])[1]>>
    /\ Len(loads) = 1 <=> o + ChunkSize + 1 <= size
    /\ Len(loads) = 1 =>
         /\ ret.status = "ok"
         /\ Flat(ret.X) = SubSeq(tK, o + 1, o + ChunkSize)
         /\ Flat(ret.y) = SubSeq(tK, o + 2, o + ChunkSize + 1)
         /\ Len(Flat(ret.y)) = ChunkSize

\* A two-row batch whose chunk starts inside a shard and ends exactly at
\* that shard's last token.
C15_Witness ==
  /\ Called
  /\ arg < DatasetLen
  /\ batch_size = 2
  /\ ShardIdx(arg) + 1 < Len(shards)
  /\ LocalIdx(arg) + ChunkSize = Len(NpLoad(shards[ShardIdx(arg) + 1]))
  /\ LocalIdx(arg) > 0
  /\ ret.status = "ok"
  /\ Len(loads) = 2

\* ------------------------------------------------------------ unused tail
\* The stream position (0-based) of a token.
PosOf(tok) == (CHOOSE i \in 1..Len(Stream) : Stream[i] = tok) - 1

\* The positions of the tokens of a returned tensor.
Positions(rows) == {PosOf(tok) : tok \in Range(Flat(rows))}

PassSoFar == SubSeq(LoaderIndices, 1, Len(LoaderIndices) - Len(iterator))

Ascending(seq) == \A i, j \in DOMAIN seq : i < j => seq[i] < seq[j]

LocalRankOf(q) == q % nproc_per_node

\* The rank train() hands to load_fineweb in the process whose RANK is q:
\* its DDP_LOCAL_RANK.
SamplerRankOf(q) == LocalRankOf(q)

\* C17: in a run of world_size processes, on one machine or several, the
\* rank handed to the sampler differs from process to process and the ranks
\* handed out are 0..world_size-1; this process is the only one with its.
C17_SamplerRanksDistinct ==
  gen # "created" =>
    /\ SamplerRankOf(ddp_rank) = ddp_local_rank
    /\ \A q \in Ranks \ {ddp_rank} : SamplerRankOf(q) # ddp_local_rank
    /\ \A p, q \in Ranks : p # q => SamplerRankOf(p) # SamplerRankOf(q)
    /\ {SamplerRankOf(q) : q \in Ranks} = Ranks
\* ------------------------------------------------------------- termination
\* C18 as claimed: whatever the length L >= 0 of the loader's pass, a request
\* for the next item is served after at most one restart of the iterator.
C18_AtMostOneRestart == restarts <= 1

\* C18, amended: over a pass of L >= 1 indices, a request for the next item
\* ends after at most one restart, with the item or with the exception its
\* fetch raised.  (Over an empty pass the generator restarts for ever.)
C18_RequestReturns ==
  /\ [](Len(LoaderIndices) >= 1 => restarts <= 1)
  /\ (gen = "running" /\ Len(LoaderIndices) >= 1)
       ~> (gen \in {"suspended", "dead"})

\* A request that was served with the first item of a new pass, after one
\* restart.
C18_Witness ==
  /\ gen = "suspended"
  /\ restarts = 1
  /\ Len(LoaderIndices) >= 2
  /\ Len(produced) = Len(LoaderIndices) + 1
  /\ produced[Len(produced)] = LoaderIndices[1]
====
